---- MODULE Spec2Model ----
(***************************************************************************)
(* The line editor of src/main.go as a state machine.                      *)
(*                                                                         *)
(* A line of text is a sequence of one-character strings, so that the      *)
(* parser, the decimal conversions and the whitespace handling are         *)
(* computed byte by byte as the code computes them.  The state is the      *)
(* State struct, the file system the editor reads and writes, the position *)
(* of the process (looping, exited, dead of a runtime panic) and what the  *)
(* last iteration of the read loop did (the line it read, the command it   *)
(* parsed, the error it reported, the lines it printed), whether the input *)
(* is exhausted, and how far a write of the buffer to a file has come.     *)
(***************************************************************************)
EXTENDS Integers, Sequences

VARIABLES mode, buffer, changed, lineNumbers, filename,
          files, pc, line, cmd, err, out, slice, eof, wr

vars == <<mode, buffer, changed, lineNumbers, filename,
          files, pc, line, cmd, err, out, slice, eof, wr>>

(* ------------------------------ bounds --------------------------------- *)

\* The longest buffer the appending action builds.
MaxBuf == 2

\* The longest buffer the address specification starts from.
MaxAddrBuf == 3

(* ----------------------------- constants ------------------------------- *)

modeAppend == "modeAppend"
modeCommand == "modeCommand"
modeQuit == "modeQuit"

\* The byte that marks a command line.
Sentinel == "."

\* The bytes unicode.IsLetter accepts, within the model's alphabet.
Letters == {"a", "f", "l", "n", "p", "q", "r", "w", "x"}

\* The keys of the digit map nn of matchHere, with their values.
nn == [c \in {"0", "1", "2", "3", "4", "5", "6", "7", "8", "9"} |->
         CASE c = "0" -> 0 [] c = "1" -> 1 [] c = "2" -> 2 [] c = "3" -> 3
           [] c = "4" -> 4 [] c = "5" -> 5 [] c = "6" -> 6 [] c = "7" -> 7
           [] c = "8" -> 8 [] c = "9" -> 9]

\* The white space strings.TrimSpace and strings.Fields skip.
Space == {" "}

\* The handler table: command byte -> handler.
commands == [c \in {"p", "q", "a", "r", "w", "l", ".", "n"} |->
               CASE c = "p" -> "print"
                 [] c = "q" -> "quit"
                 [] c = "a" -> "append"
                 [] c = "r" -> "readFile"
                 [] c = "w" -> "writeFile"
                 [] c = "l" -> "numbers"
                 [] c = "." -> "dot"
                 [] c = "n" -> "new"]

\* The messages of the Go runtime when it kills the process.
IndexPanic == "panic: runtime error: index out of range"
SlicePanic == "panic: runtime error: slice bounds out of range"
Panics == {IndexPanic, SlicePanic}

\* The errors the code returns.
ErrEmpty == "text buffer is empty!"
ErrNoName == "File name undefined!"
ErrNoNameW == "File name undefined!\n"
ErrUnknown == "Command unknown!"
ErrSyntax == "command unknown or syntax error"
ErrOpen == "open: no such file or i/o error"
ErrCreate == "create: i/o error"

(* ------------------------- strings and numbers ------------------------- *)

\* The decimal digits of a natural number, most significant first.
RECURSIVE NatToStr(_)
NatToStr(n) ==
  LET d == CHOOSE c \in DOMAIN nn : nn[c] = n % 10
  IN IF n < 10 THEN <<d>> ELSE NatToStr(n \div 10) \o <<d>>

\* fmt.Sprintf("%d", n)
Sprintf_d(n) == IF n < 0 THEN <<"-">> \o NatToStr(-n) ELSE NatToStr(n)

\* The value of a run of digits.
RECURSIVE DigitsVal(_)
DigitsVal(s) ==
  IF s = <<>> THEN 0
  ELSE DigitsVal(SubSeq(s, 1, Len(s) - 1)) * 10 + nn[s[Len(s)]]

\* strconv.Atoi with its error ignored: 0 for a string that is no number.
Atoi(s) ==
  LET signed == s # <<>> /\ s[1] \in {"+", "-"}
      body == IF signed THEN Tail(s) ELSE s
  IN IF body = <<>> \/ \E i \in 1..Len(body) : body[i] \notin DOMAIN nn
     THEN 0
     ELSE IF signed /\ s[1] = "-" THEN -DigitsVal(body) ELSE DigitsVal(body)

\* fmt.Printf("%-4d", n): the number, then spaces up to a width of 4.
RECURSIVE PadRight(_, _)
PadRight(s, w) == IF Len(s) >= w THEN s ELSE PadRight(s \o <<" ">>, w)
Printf_4d(n) == PadRight(Sprintf_d(n), 4)

\* strings.TrimSpace
RECURSIVE TrimLeft(_)
TrimLeft(s) == IF s # <<>> /\ s[1] \in Space THEN TrimLeft(Tail(s)) ELSE s
RECURSIVE TrimRight(_)
TrimRight(s) ==
  IF s # <<>> /\ s[Len(s)] \in Space
  THEN TrimRight(SubSeq(s, 1, Len(s) - 1)) ELSE s
TrimSpace(s) == TrimRight(TrimLeft(s))

\* The length of the first run of non-space bytes of s.
RECURSIVE WordLen(_)
WordLen(s) == IF s = <<>> \/ s[1] \in Space THEN 0 ELSE 1 + WordLen(Tail(s))

\* strings.Fields: the maximal runs of non-space bytes, in order.
RECURSIVE Fields(_)
Fields(s) ==
  LET t == TrimLeft(s)
      n == WordLen(t)
  IN IF t = <<>> THEN <<>>
     ELSE <<SubSeq(t, 1, n)>> \o Fields(SubSeq(t, n + 1, Len(t)))

(* ------------------------------ the parser ----------------------------- *)

\* peekDot: the first byte is the sentinel (false for no bytes).
peekDot(data) == data # <<>> /\ data[1] = Sentinel

\* peekLetter: the first byte is a letter (false for no bytes).
peekLetter(data) == data # <<>> /\ data[1] \in Letters

\* peekAddr: the first byte is '^', ',' or a digit.
peekAddr(data) == data # <<>> /\ (data[1] \in {"^", ","} \/ data[1] \in DOMAIN nn)

\* The number of leading bytes of data that are keys of nn.
RECURSIVE DigitRun(_)
DigitRun(data) ==
  IF data = <<>> \/ data[1] \notin DOMAIN nn THEN 0 ELSE 1 + DigitRun(Tail(data))

\* The result of matchHere when it indexes past the end of the line.
MatchPanic == [panic |-> TRUE, pos |-> 0, rest |-> <<>>]

\* matchHere taking every magnitude as an offset forward.
matchHere_plus(data) ==
  IF data = <<>> THEN MatchPanic
  ELSE
    LET base == CASE data[1] = "^" -> 1
                  [] data[1] = "$" -> Len(buffer)
                  [] OTHER -> 0
        d1 == IF data[1] \in {"^", "$"} THEN Tail(data) ELSE data
    IN IF d1 = <<>> THEN MatchPanic
       ELSE
         LET d2 == IF d1[1] \in {"-", "+"} THEN Tail(d1) ELSE d1
             p == DigitRun(d2)
             acc == DigitsVal(SubSeq(d2, 1, p))
         IN IF p = Len(d2) THEN MatchPanic
            ELSE [panic |-> FALSE,
                  pos |-> base + acc,
                  rest |-> SubSeq(d2, p + 1, Len(d2))]

\* matchHere: anchor, sign, digits.  It reads (*data)[0] at the anchor and at
\* the sign, and (*data)[p] until a byte is no digit, with no length check:
\* each read past the end of the line is a runtime panic.
matchHere(data) ==
  IF data = <<>> THEN MatchPanic
  ELSE
    LET base == CASE data[1] = "^" -> 1
                  [] data[1] = "$" -> Len(buffer)
                  [] OTHER -> 0
        d1 == IF data[1] \in {"^", "$"} THEN Tail(data) ELSE data
    IN IF d1 = <<>> THEN MatchPanic
       ELSE
         LET dir == IF d1[1] = "-" THEN -1 ELSE 1
             d2 == IF d1[1] \in {"-", "+"} THEN Tail(d1) ELSE d1
             p == DigitRun(d2)
             acc == DigitsVal(SubSeq(d2, 1, p))
         IN IF p = Len(d2) THEN MatchPanic
            ELSE [panic |-> FALSE,
                  pos |-> base + acc * dir,
                  rest |-> SubSeq(d2, p + 1, Len(d2))]

\* What parseCommand returns: a Command, an error, or it panics.
NoCommand == [kind |-> "none", name |-> "", args |-> <<>>, handler |-> "", err |-> ""]
ParseCommand(name, args, handler) ==
  [kind |-> "command", name |-> name, args |-> args, handler |-> handler, err |-> ""]
ParseError(e) ==
  [kind |-> "error", name |-> "", args |-> <<>>, handler |-> "", err |-> e]
ParsePanic ==
  [kind |-> "panic", name |-> "", args |-> <<>>, handler |-> "", err |-> IndexPanic]

\* The free-form tokens after the command letter.
tailArgs(data) == Fields(TrimSpace(Tail(data)))

\* The letter-first form with the range tokens of the older revision, 1 and
\* the buffer length less one.
letterFirst_rev0(data) ==
  LET cname == data[1]
  IN IF cname \notin DOMAIN commands THEN ParseError(ErrUnknown)
     ELSE ParseCommand(cname,
                       <<Sprintf_d(1), Sprintf_d(Len(buffer) - 1)>> \o tailArgs(data),
                       commands[cname])

\* The letter-first form: the range tokens are 0 and the buffer length.
letterFirst(data) ==
  LET top == 0
      last == Len(buffer)
      cname == data[1]
  IN IF cname \notin DOMAIN commands THEN ParseError(ErrUnknown)
     ELSE ParseCommand(cname,
                       <<Sprintf_d(top), Sprintf_d(last)>> \o tailArgs(data),
                       commands[cname])

\* The address-first form with the end left at the zero value when no comma
\* follows the first address.
addrFirst_zeroEnd(data) ==
  LET m1 == matchHere(data)
  IN IF m1.panic THEN ParsePanic
     ELSE
       LET comma == m1.rest[1] = ","
           m2 == IF comma THEN matchHere(Tail(m1.rest))
                 ELSE [panic |-> FALSE, pos |-> 0, rest |-> m1.rest]
       IN IF m2.panic THEN ParsePanic
          ELSE IF peekLetter(m2.rest)
          THEN LET cname == m2.rest[1]
               IN IF cname \notin DOMAIN commands THEN ParseError(ErrUnknown)
                  ELSE ParseCommand(cname,
                                    <<Sprintf_d(m1.pos), Sprintf_d(m2.pos)>>
                                      \o tailArgs(m2.rest),
                                    commands[cname])
          ELSE ParseError(ErrSyntax)

\* The address-first form: the range tokens are the addresses as resolved,
\* -1 for the end when no comma follows the first address.
addrFirst(data) ==
  LET m1 == matchHere(data)
  IN IF m1.panic THEN ParsePanic
     ELSE
       LET comma == m1.rest[1] = ","
           m2 == IF comma THEN matchHere(Tail(m1.rest))
                 ELSE [panic |-> FALSE, pos |-> -1, rest |-> m1.rest]
       IN IF m2.panic THEN ParsePanic
          ELSE IF peekLetter(m2.rest)
          THEN LET cname == m2.rest[1]
               IN IF cname \notin DOMAIN commands THEN ParseError(ErrUnknown)
                  ELSE ParseCommand(cname,
                                    <<Sprintf_d(m1.pos), Sprintf_d(m2.pos)>>
                                      \o tailArgs(m2.rest),
                                    commands[cname])
          ELSE ParseError(ErrSyntax)

\* parseCommand dropping the first byte of every line, the lone sentinel
\* included.
parseCommand_strip(l) ==
  LET data == IF Len(l) > 0 THEN Tail(l) ELSE l
  IN IF peekDot(data) THEN ParseCommand(data[1], <<>>, commands[data[1]])
     ELSE IF peekLetter(data) THEN letterFirst(data)
     ELSE IF peekAddr(data) THEN addrFirst(data)
     ELSE ParseError(ErrSyntax)

\* parseCommand: drop the sentinel when more bytes follow, then the three
\* forms in order.
parseCommand(l) ==
  LET data == IF Len(l) > 1 THEN Tail(l) ELSE l
  IN IF peekDot(data) THEN ParseCommand(data[1], <<>>, commands[data[1]])
     ELSE IF peekLetter(data) THEN letterFirst(data)
     ELSE IF peekAddr(data) THEN addrFirst(data)
     ELSE ParseError(ErrSyntax)

(* ------------------------------ the files ------------------------------ *)

\* The name of the temporary sibling writeFile writes first.
Swp(fn) == fn \o <<".", "s", "w", "p">>

\* readFile(filename): the lines of the file, each trimmed.
osReadFile(fn) == [i \in 1..Len(files[fn]) |-> TrimSpace(files[fn][i])]

\* writeFile(filename, buffer) when every step succeeds: the lines go to
\* filename.swp, filename is removed and filename.swp is renamed to it.
osWriteFile(fn, lines) ==
  [n \in (DOMAIN files \cup {fn}) \ {Swp(fn)} |-> IF n = fn THEN lines ELSE files[n]]

(* ----------------------------- the handlers ---------------------------- *)

NoSlice == <<>>

\* What a handler that prints nothing and slices nothing leaves behind.
Quiet(e) == err' = e /\ out' = <<>> /\ slice' = NoSlice

quit(args) ==
  /\ mode' = modeQuit
  /\ UNCHANGED <<buffer, changed, lineNumbers, filename, files>>
  /\ Quiet("")

dot(args) ==
  /\ mode' = modeCommand
  /\ UNCHANGED <<buffer, changed, lineNumbers, filename, files>>
  /\ Quiet("")

append(args) ==
  /\ mode' = modeAppend
  /\ UNCHANGED <<buffer, changed, lineNumbers, filename, files>>
  /\ Quiet("")

numbers(args) ==
  /\ lineNumbers' = ~lineNumbers
  /\ UNCHANGED <<mode, buffer, changed, filename, files>>
  /\ Quiet("")

new(args) ==
  /\ buffer' = <<>>
  /\ UNCHANGED <<mode, changed, lineNumbers, filename, files>>
  /\ Quiet("")

\* The bounds of print without the step from the last line to the line
\* after it.
printRange_noInc(args) ==
  LET top0 == Atoi(args[1]) - 1
      last0 == Atoi(args[2]) - 1
      top == IF top0 < 0 THEN 0 ELSE top0
      last1 == IF last0 < 0 THEN top + 1 ELSE last0
      last == IF last1 > Len(buffer) THEN Len(buffer) ELSE last1
  IN <<top, last>>

\* The bounds print slices the buffer with: top and last of buffer[top:last].
printRange(args) ==
  LET top0 == Atoi(args[1]) - 1
      last0 == Atoi(args[2]) - 1
      top == IF top0 < 0 THEN 0 ELSE top0
      last1 == IF last0 < 0 THEN top + 1 ELSE last0 + 1
      last == IF last1 > Len(buffer) THEN Len(buffer) ELSE last1
  IN <<top, last>>

\* The lines print writes for buffer[top:last].
printLines(top, last) ==
  [i \in 1..(last - top) |->
     IF lineNumbers THEN Printf_4d(top + i) \o buffer[top + i]
     ELSE buffer[top + i]]

\* print without the refusal of an empty buffer.
print_noCheck(args) ==
  /\ UNCHANGED <<mode, buffer, changed, lineNumbers, filename, files>>
  /\ IF Len(args) < 2 THEN Quiet(IndexPanic)
     ELSE LET r == printRange(args)
          IN /\ slice' = r
             /\ IF slice'[1] > slice'[2]
                THEN err' = SlicePanic /\ out' = <<>>
                ELSE err' = "" /\ out' = printLines(slice'[1], slice'[2])

\* print: buffer[top:last] is a runtime panic unless top <= last (last is at
\* most the length, top is at least 0).
print(args) ==
  /\ UNCHANGED <<mode, buffer, changed, lineNumbers, filename, files>>
  /\ IF Len(buffer) = 0 THEN Quiet(ErrEmpty)
     ELSE IF Len(args) < 2 THEN Quiet(IndexPanic)
     ELSE LET r == printRange(args)
          IN /\ slice' = r
             /\ IF slice'[1] > slice'[2]
                THEN err' = SlicePanic /\ out' = <<>>
                ELSE err' = "" /\ out' = printLines(slice'[1], slice'[2])

\* readFile dropping the text before it reads.
readFile_clearFirst(args) ==
  /\ UNCHANGED <<mode, changed, lineNumbers, files>>
  /\ IF Len(args) = 0
     THEN Quiet(ErrNoName) /\ UNCHANGED <<buffer, filename>>
     ELSE LET fn == TrimSpace(args[1])
          IN \E ok \in BOOLEAN :
               IF ok /\ fn \in DOMAIN files
               THEN /\ buffer' = osReadFile(fn)
                    /\ filename' = fn
                    /\ Quiet("")
               ELSE Quiet(ErrOpen) /\ buffer' = <<>> /\ UNCHANGED filename

\* readFile: the file named by the first argument replaces the buffer.
readFile(args) ==
  /\ UNCHANGED <<mode, changed, lineNumbers, files>>
  /\ IF Len(args) = 0
     THEN Quiet(ErrNoName) /\ UNCHANGED <<buffer, filename>>
     ELSE LET fn == TrimSpace(args[1])
          IN \E ok \in BOOLEAN :
               IF ok /\ fn \in DOMAIN files
               THEN /\ buffer' = osReadFile(fn)
                    /\ filename' = fn
                    /\ Quiet("")
               ELSE Quiet(ErrOpen) /\ UNCHANGED <<buffer, filename>>

\* writeFile dropping the text once it is saved.
writeFile_clear(args) ==
  /\ UNCHANGED <<mode, lineNumbers, filename>>
  /\ IF Len(filename) = 0 /\ Len(args) = 0
     THEN Quiet(ErrNoNameW) /\ UNCHANGED <<buffer, changed, files>>
     ELSE LET fn == IF Len(args) > 0 THEN TrimSpace(args[1]) ELSE filename
          IN \E ok \in BOOLEAN :
               IF ok
               THEN /\ files' = osWriteFile(fn, buffer)
                    /\ buffer' = <<>>
                    /\ changed' = FALSE
                    /\ Quiet("")
               ELSE Quiet(ErrCreate) /\ UNCHANGED <<buffer, changed, files>>

\* writeFile: the buffer goes to the file named by the first argument, or by
\* the associated filename when there is no argument.
writeFile(args) ==
  /\ UNCHANGED <<mode, buffer, lineNumbers, filename>>
  /\ IF Len(filename) = 0 /\ Len(args) = 0
     THEN Quiet(ErrNoNameW) /\ UNCHANGED <<changed, files>>
     ELSE LET fn == IF Len(args) > 0 THEN TrimSpace(args[1]) ELSE filename
          IN \E ok \in BOOLEAN :
               IF ok
               THEN /\ files' = osWriteFile(fn, buffer)
                    /\ changed' = FALSE
                    /\ Quiet("")
               ELSE Quiet(ErrCreate) /\ UNCHANGED <<changed, files>>

(* ----------------------------- the read loop --------------------------- *)

\* HandleCommand: parse the line; return the parser's error, or call the
\* handler with the command's arguments.
HandleCommand(l) ==
  LET c == parseCommand(l)
  IN /\ cmd' = c
     /\ CASE cmd'.kind # "command" ->
               /\ Quiet(cmd'.err)
               /\ UNCHANGED <<mode, buffer, changed, lineNumbers, filename, files>>
          [] cmd'.kind = "command" /\ cmd'.handler = "print" -> print(cmd'.args)
          [] cmd'.kind = "command" /\ cmd'.handler = "quit" -> quit(cmd'.args)
          [] cmd'.kind = "command" /\ cmd'.handler = "append" -> append(cmd'.args)
          [] cmd'.kind = "command" /\ cmd'.handler = "readFile" -> readFile(cmd'.args)
          [] cmd'.kind = "command" /\ cmd'.handler = "writeFile" -> writeFile(cmd'.args)
          [] cmd'.kind = "command" /\ cmd'.handler = "numbers" -> numbers(cmd'.args)
          [] cmd'.kind = "command" /\ cmd'.handler = "dot" -> dot(cmd'.args)
          [] cmd'.kind = "command" /\ cmd'.handler = "new" -> new(cmd'.args)

\* The turn on a line that begins with the sentinel taking it for text in
\* append mode, the bare sentinel apart.
CommandLine_gated(l) ==
  /\ pc = "loop"
  /\ l # <<>> /\ l[1] = Sentinel
  /\ line' = l
  /\ IF mode = modeAppend /\ l # <<Sentinel>> /\ Len(buffer) < MaxBuf
     THEN /\ cmd' = NoCommand
          /\ Quiet("")
          /\ buffer' = Append(buffer, l) /\ changed' = TRUE
          /\ UNCHANGED <<mode, lineNumbers, filename, files, pc>>
     ELSE /\ HandleCommand(l)
          /\ pc' = IF err' \in Panics THEN "panic"
                   ELSE IF err' = "" /\ mode' = modeQuit THEN "exit"
                   ELSE "loop"
  /\ UNCHANGED <<eof, wr>>

\* One turn of main's loop on a line that begins with the sentinel: an error
\* is reported and the loop goes on, the quit mode exits, a panic kills.
CommandLine(l) ==
  /\ pc = "loop"
  /\ l # <<>> /\ l[1] = Sentinel
  /\ line' = l
  /\ HandleCommand(l)
  /\ pc' = IF err' \in Panics THEN "panic"
           ELSE IF err' = "" /\ mode' = modeQuit THEN "exit"
           ELSE "loop"
  /\ UNCHANGED <<eof, wr>>

\* The turn on a line of text storing the line trimmed.
TextLine_trim(t) ==
  /\ pc = "loop"
  /\ t # <<>> /\ t[1] # Sentinel
  /\ mode = modeAppend => Len(buffer) < MaxBuf
  /\ line' = t
  /\ cmd' = NoCommand
  /\ Quiet("")
  /\ IF mode = modeAppend
     THEN buffer' = Append(buffer, TrimSpace(t)) /\ changed' = TRUE
     ELSE UNCHANGED <<buffer, changed>>
  /\ UNCHANGED <<mode, lineNumbers, filename, files, pc, eof, wr>>

\* One turn of main's loop on a line of text: stored in append mode, dropped
\* otherwise.
TextLine(t) ==
  /\ pc = "loop"
  /\ t # <<>> /\ t[1] # Sentinel
  /\ mode = modeAppend => Len(buffer) < MaxBuf
  /\ line' = t
  /\ cmd' = NoCommand
  /\ Quiet("")
  /\ IF mode = modeAppend
     THEN buffer' = Append(buffer, t) /\ changed' = TRUE
     ELSE UNCHANGED <<buffer, changed>>
  /\ UNCHANGED <<mode, lineNumbers, filename, files, pc, eof, wr>>

\* One turn of main's loop when ReadLine returns no bytes for an empty
\* line: line[0] is a runtime panic.
NoBytes ==
  /\ pc = "loop"
  /\ line' = <<>>
  /\ cmd' = NoCommand
  /\ Quiet(IndexPanic)
  /\ pc' = "panic"
  /\ UNCHANGED <<mode, buffer, changed, lineNumbers, filename, files, eof, wr>>

\* One turn of main's loop at the end of the input: ReadLine returns no
\* bytes and io.EOF, the error is dropped and line[0] is a runtime panic.
EndOfInput ==
  /\ pc = "loop"
  /\ eof' = TRUE
  /\ line' = <<>>
  /\ cmd' = NoCommand
  /\ Quiet(IndexPanic)
  /\ pc' = "panic"
  /\ UNCHANGED <<mode, buffer, changed, lineNumbers, filename, files, wr>>

(* ------------------------------ the inputs ----------------------------- *)

\* The lines of text the user types.
Texts == {<<"x">>, <<" ", "x">>}

\* The command lines the user types.
CmdLines ==
  { <<".">>, <<".", ".">>,
    <<".", "a">>, <<".", "q">>, <<".", "l">>, <<".", "n">>, <<".", "p">>,
    <<".", "w">>, <<".", "w", " ", "f">>, <<".", "r", " ", "f">>, <<".", "r">>,
    <<".", "x">>, <<".", "$", "p">>, <<".", " ", "p">>,
    <<".", "1", "p">>, <<".", "2", "p">>, <<".", "1", ",", "2", "p">>,
    <<".", "3", ",", "1", "p">>, <<".", "p", " ", "f">>,
    <<".", "1">>, <<".", "^">>, <<".", "1", ",">> }

\* The line before any line was read.
NoLine == <<"<none>">>

\* A file the user has, which the editor did not write.
UserFile == <<"f">>

\* No write of the buffer to a file is under way.
NoWrite == [step |-> "idle", fn |-> <<>>, n |-> 0]

Init ==
  /\ mode = modeCommand
  /\ buffer = <<>>
  /\ changed = FALSE
  /\ lineNumbers = FALSE
  /\ filename = <<>>
  /\ files = [n \in {UserFile} |-> << <<" ", "x">>, <<"x">> >>]
  /\ pc = "loop"
  /\ line = NoLine
  /\ cmd = NoCommand
  /\ err = ""
  /\ out = <<>>
  /\ slice = NoSlice
  /\ eof = FALSE
  /\ wr = NoWrite

Next ==
  \/ \E l \in CmdLines : CommandLine(l)
  \/ \E t \in Texts : TextLine(t)
  \/ NoBytes
  \/ EndOfInput

Spec == Init /\ [][Next]_vars

(* ------------------------- the address inputs -------------------------- *)

\* An address as the user types it: an anchor or none, a sign or none, a
\* number or none (-1).
AddrForm(anchor, sign, num) == [anchor |-> anchor, sign |-> sign, num |-> num]

\* The bytes of an address.
AddrText(f) == f.anchor \o f.sign \o (IF f.num < 0 THEN <<>> ELSE Sprintf_d(f.num))

\* The start addresses and the end addresses the user types.
Firsts ==
  { AddrForm(<<>>, <<>>, -1), AddrForm(<<>>, <<>>, 0), AddrForm(<<>>, <<>>, 1),
    AddrForm(<<>>, <<>>, 2), AddrForm(<<>>, <<>>, 3), AddrForm(<<>>, <<>>, 4),
    AddrForm(<<>>, <<>>, 12),
    AddrForm(<<"^">>, <<>>, -1), AddrForm(<<"^">>, <<"+">>, 1),
    AddrForm(<<"^">>, <<"-">>, 2), AddrForm(<<"$">>, <<>>, -1) }
Seconds ==
  { AddrForm(<<>>, <<>>, -1), AddrForm(<<>>, <<>>, 1), AddrForm(<<>>, <<>>, 2),
    AddrForm(<<>>, <<>>, 3), AddrForm(<<>>, <<>>, 4), AddrForm(<<>>, <<>>, 10),
    AddrForm(<<"$">>, <<>>, -1), AddrForm(<<"$">>, <<"+">>, 1),
    AddrForm(<<"$">>, <<"-">>, 1), AddrForm(<<"^">>, <<>>, -1),
    AddrForm(<<>>, <<"-">>, 1) }

\* No end address: the line has no comma.
NoAddr == [anchor |-> <<>>, sign |-> <<>>, num |-> -2]
CommaText(f) == IF f = NoAddr THEN <<>> ELSE <<",">> \o AddrText(f)

\* What follows the addresses: the print letter and its free-form tokens, or
\* nothing.
Ends ==
  { [text |-> <<"p">>, toks |-> <<>>],
    [text |-> <<"p", " ", "f", " ", " ", "x">>, toks |-> << <<"f">>, <<"x">> >>],
    [text |-> <<"p", "f">>, toks |-> << <<"f">> >>],
    [text |-> <<>>, toks |-> <<>>] }

\* The command line of a start address, an end address or none, and an end.
AddrLine(f1, f2, e) == <<Sentinel>> \o AddrText(f1) \o CommaText(f2) \o e.text

AddrLines ==
  { AddrLine(f1, f2, e) : f1 \in Firsts, f2 \in Seconds \cup {NoAddr}, e \in Ends }

\* The buffers of at most n lines of text.
Buffers(n) == UNION { [1..k -> Texts] : k \in 0..n }

\* The editor with some text in the buffer, numbering on or off.
InitAddr ==
  /\ mode = modeCommand
  /\ buffer \in Buffers(MaxAddrBuf)
  /\ changed = (buffer # <<>>)
  /\ lineNumbers \in BOOLEAN
  /\ filename = <<>>
  /\ files = [n \in {UserFile} |-> << <<" ", "x">>, <<"x">> >>]
  /\ pc = "loop"
  /\ line = NoLine
  /\ cmd = NoCommand
  /\ err = ""
  /\ out = <<>>
  /\ slice = NoSlice
  /\ eof = FALSE
  /\ wr = NoWrite

\* One command line on the editor as set up: none of these lines changes the
\* State (a parse error and print leave it alone), so a second line would
\* meet the same editor.
NextAddr == line = NoLine /\ \E l \in AddrLines : CommandLine(l)

SpecAddr == InitAddr /\ [][NextAddr]_vars

(* ------------------------ the steps of a write ------------------------- *)

\* The lines the user's file holds before the editor writes to it.
SavedLines == << <<" ", "x">>, <<"x">> >>

\* The file system fs with the file n holding the lines c.
WithFile(fs, n, c) == [m \in DOMAIN fs \cup {n} |-> IF m = n THEN c ELSE fs[m]]

\* The file system fs without the file n.
WithoutFile(fs, n) == [m \in DOMAIN fs \ {n} |-> fs[m]]

\* The first k lines of the buffer.
Prefix(k) == SubSeq(buffer, 1, k)

\* The write goes on to its step st, n lines handed to the writer.
WriteStep(st, n) == wr' = [wr EXCEPT !.step = st, !.n = n]

\* os.Create(filename + ".swp"): the swap file exists and is empty, or the
\* write returns the error.
osCreate ==
  /\ wr.step = "create"
  /\ \E ok \in BOOLEAN :
       IF ok
       THEN /\ files' = WithFile(files, Swp(wr.fn), <<>>)
            /\ WriteStep(IF Len(buffer) = 0 THEN "flush" ELSE "write", 0)
       ELSE files' = files /\ WriteStep("failed", 0)
  /\ UNCHANGED <<mode, buffer, changed, lineNumbers, filename, pc, line, cmd,
                 err, out, slice, eof>>

\* writer.WriteString(line + "\n"): the line is in the writer's memory, and
\* the writer has passed on to the swap file as many of the lines it was
\* handed as it chose to (none before it is full); or the write returns the
\* error.
WriteString ==
  /\ wr.step = "write"
  /\ \E ok \in BOOLEAN : \E k \in Len(files[Swp(wr.fn)])..(wr.n + 1) :
       /\ files' = WithFile(files, Swp(wr.fn), Prefix(k))
       /\ IF ok
          THEN WriteStep(IF wr.n + 1 = Len(buffer) THEN "flush" ELSE "write", wr.n + 1)
          ELSE WriteStep("failed", wr.n)
  /\ UNCHANGED <<mode, buffer, changed, lineNumbers, filename, pc, line, cmd,
                 err, out, slice, eof>>

\* writer.Flush() and file.Close(): all the lines are in the swap file; or
\* some of them are and the write returns the error.
Flush ==
  /\ wr.step = "flush"
  /\ \E ok \in BOOLEAN :
       IF ok
       THEN /\ files' = WithFile(files, Swp(wr.fn), buffer)
            /\ WriteStep("remove", wr.n)
       ELSE \E k \in Len(files[Swp(wr.fn)])..Len(buffer) :
              /\ files' = WithFile(files, Swp(wr.fn), Prefix(k))
              /\ WriteStep("failed", wr.n)
  /\ UNCHANGED <<mode, buffer, changed, lineNumbers, filename, pc, line, cmd,
                 err, out, slice, eof>>

\* os.Remove(filename): the file is gone, or it is not; the error is dropped.
osRemove ==
  /\ wr.step = "remove"
  /\ \E ok \in BOOLEAN :
       files' = IF ok /\ wr.fn \in DOMAIN files THEN WithoutFile(files, wr.fn)
                ELSE files
  /\ WriteStep("rename", wr.n)
  /\ UNCHANGED <<mode, buffer, changed, lineNumbers, filename, pc, line, cmd,
                 err, out, slice, eof>>

\* os.Rename(filename + ".swp", filename): the swap file has taken the
\* file's name, or nothing has moved; the error is dropped and the write
\* returns nil.
osRename ==
  /\ wr.step = "rename"
  /\ \E ok \in BOOLEAN :
       files' = IF ok
                THEN WithoutFile(WithFile(files, wr.fn, files[Swp(wr.fn)]), Swp(wr.fn))
                ELSE files
  /\ WriteStep("done", wr.n)
  /\ UNCHANGED <<mode, buffer, changed, lineNumbers, filename, pc, line, cmd,
                 err, out, slice, eof>>

\* The process is killed between two steps of the write.
Crash ==
  /\ wr.step \in {"create", "write", "flush", "remove", "rename"}
  /\ WriteStep("crashed", wr.n)
  /\ UNCHANGED <<mode, buffer, changed, lineNumbers, filename, files, pc, line,
                 cmd, err, out, slice, eof>>

\* The editor about to write its buffer over the user's file.
InitWrite ==
  /\ mode = modeCommand
  /\ buffer \in Buffers(MaxAddrBuf)
  /\ changed = (buffer # <<>>)
  /\ lineNumbers = FALSE
  /\ filename = UserFile
  /\ files = [n \in {UserFile} |-> SavedLines]
  /\ pc = "loop"
  /\ line = <<".", "w">>
  /\ cmd = NoCommand
  /\ err = ""
  /\ out = <<>>
  /\ slice = NoSlice
  /\ eof = FALSE
  /\ wr = [step |-> "create", fn |-> UserFile, n |-> 0]

NextWrite ==
  \/ osCreate
  \/ WriteString
  \/ Flush
  \/ osRemove
  \/ osRename
  \/ Crash

SpecWrite == InitWrite /\ [][NextWrite]_vars

(* ------------------------------ the claims ----------------------------- *)

\* The last turn of the loop read a line that begins with the sentinel.
ReadCommand == line # NoLine /\ line # <<>> /\ line[1] = Sentinel

\* n blanks.
Blanks(n) == [j \in 1..n |-> " "]

\* Line i of the buffer as the user expects it printed: as it is, or after
\* its number left-justified in four columns when numbering is on.
Shown(i) ==
  IF lineNumbers
  THEN NatToStr(i) \o Blanks(4 - Len(NatToStr(i))) \o buffer[i]
  ELSE buffer[i]

\* The file system fs with the file n holding the lines c.
Put(fs, n, c) == [m \in DOMAIN fs \cup {n} |-> IF m = n THEN c ELSE fs[m]]

\* The value of an address: base + direction * magnitude, the base of '^'
\* being 1 in matchHere.
AddrValue(f) ==
  (IF f.anchor = <<"^">> THEN 1 ELSE IF f.anchor = <<"$">> THEN Len(buffer) ELSE 0)
  + (IF f.sign = <<"-">> THEN -1 ELSE 1) * (IF f.num < 0 THEN 0 ELSE f.num)

\* C1: whatever print command was read, the range print slices the buffer
\* with satisfies 0 <= start <= end <= bufferLength.
C1_PrintRangeWithinBuffer ==
  slice # NoSlice =>
    /\ 0 <= slice[1]
    /\ slice[1] <= slice[2]
    /\ slice[2] <= Len(buffer)

\* C2: a line that begins with the sentinel ends with a handler dispatched or
\* with "unknown command" / "syntax error" reported, and the editor goes on
\* to the next line; only quit ends the process.
C2_CommandLineNeverCrashes ==
  ReadCommand =>
    /\ cmd.kind = "command" \/ err \in {ErrUnknown, ErrSyntax}
    /\ pc = "loop" \/ (pc = "exit" /\ cmd.handler = "quit")

\* C3: 'w' with no path, when no filename was ever associated, fails with
\* "file name undefined", writes no file and leaves the buffer and the dirty
\* flag as they were.
C3_WriteWithoutNameFails ==
  [][(line' = <<".", "w">> /\ filename = <<>>) =>
       /\ err' \in {ErrNoName, ErrNoNameW}
       /\ files' = files
       /\ buffer' = buffer
       /\ changed' = changed]_vars

\* C4: a successful 'w f' writes the buffer's lines to the file f, a
\* successful 'w' writes them to the associated filename, and no file of
\* another name is created or replaced.
C4_WriteGoesToNamedFile ==
  [][/\ (line' = <<".", "w", " ", "f">> /\ err' = "") =>
          files' = Put(files, <<"f">>, buffer)
     /\ (line' = <<".", "w">> /\ err' = "") =>
          filename # <<>> /\ files' = Put(files, filename, buffer)]_vars

\* C5: a successful 'r f' replaces the buffer with the lines of the file f,
\* in order (as the file reader yields them), and associates the filename f.
C5_ReadLoadsNamedFile ==
  [][(line' = <<".", "r", " ", "f">> /\ err' = "") =>
       /\ <<"f">> \in DOMAIN files
       /\ buffer' = [i \in 1..Len(files[<<"f">>]) |-> TrimSpace(files[<<"f">>][i])]
       /\ filename' = <<"f">>]_vars

\* C6: on a buffer of L >= 1 lines, 'p' with no address prints the lines
\* 1..L in document order, each once, and the editor goes on.
C6_LetterOnlyPrintsWholeBuffer ==
  (line = <<".", "p">> /\ buffer # <<>>) =>
    /\ cmd.kind = "command" /\ cmd.handler = "print"
    /\ err = ""
    /\ pc = "loop"
    /\ out = [i \in 1..Len(buffer) |-> Shown(i)]

\* C6 (witness): 'p' printed a buffer of several lines, numbered.
C6_Witness ==
  /\ line = <<".", "p">>
  /\ Len(buffer) >= 2
  /\ lineNumbers
  /\ Len(out) = Len(buffer)

\* C7: on a buffer of L lines, 'Np' with 1 <= N <= L prints line N alone and
\* 'N,Mp' with 1 <= N <= M <= L prints the lines N..M in order, each after
\* its number left-justified in four columns when numbering is on.
C7_AddressedPrint ==
  \A n \in 1..Len(buffer) :
    /\ line = <<".">> \o NatToStr(n) \o <<"p">> =>
         err = "" /\ out = <<Shown(n)>>
    /\ \A m \in n..Len(buffer) :
         line = <<".">> \o NatToStr(n) \o <<",">> \o NatToStr(m) \o <<"p">> =>
           err = "" /\ out = [i \in 1..(m - n + 1) |-> Shown(n + i - 1)]

\* C7 (witness): '1,2p' with numbering on printed "1   x" then "2    x" (the
\* second line of the buffer is " x") of a buffer of three lines.
C7_Witness ==
  /\ line = <<".", "1", ",", "2", "p">>
  /\ lineNumbers
  /\ buffer = << <<"x">>, <<" ", "x">>, <<"x">> >>
  /\ out = << <<"1", " ", " ", " ", "x">>, <<"2", " ", " ", " ", " ", "x">> >>

\* C8 (as claimed): the first two argument tokens are the decimal strings of
\* start+1 and end+1 of a range with 0 <= start <= end <= bufferLength.
C8_ArgsAreClampedRange ==
  (cmd.kind = "command" /\ cmd.name # Sentinel) =>
    \E s \in 0..Len(buffer) : \E e \in s..Len(buffer) :
      /\ Len(cmd.args) >= 2
      /\ cmd.args[1] = Sprintf_d(s + 1)
      /\ cmd.args[2] = Sprintf_d(e + 1)

\* C8 (amended): the first two argument tokens are the decimal strings of the
\* bounds as resolved, neither clamped nor shifted: 0 and the buffer length
\* for a letter-first command, the value of the start address and the value
\* of the end address (-1 when there is none) for an address-first command;
\* the free-form tokens follow from the third position on, in order.  (The
\* bare sentinel is neither form and has no argument tokens.)
C8_ArgsAreResolvedBounds ==
  (cmd.kind = "command" /\ cmd.name # Sentinel) =>
    \A f1 \in Firsts : \A f2 \in Seconds \cup {NoAddr} : \A e \in Ends :
      line = AddrLine(f1, f2, e) =>
        IF AddrText(f1) \o CommaText(f2) = <<>>
        THEN cmd.args = <<Sprintf_d(0), Sprintf_d(Len(buffer))>> \o e.toks
        ELSE cmd.args =
               <<Sprintf_d(AddrValue(f1)),
                 Sprintf_d(IF f2 = NoAddr THEN -1 ELSE AddrValue(f2))>> \o e.toks

\* C8 (witness): '12p f  x' on a shorter buffer handed print the tokens
\* 12, -1, f, x.
C8_Witness ==
  /\ line = <<".", "1", "2", "p", " ", "f", " ", " ", "x">>
  /\ Len(buffer) < 12
  /\ cmd.kind = "command"
  /\ cmd.args = << <<"1", "2">>, <<"-", "1">>, <<"f">>, <<"x">> >>

\* C9: 'a' enters append mode and leaves the buffer alone; in append mode a
\* line of text that does not begin with the sentinel is added verbatim at
\* the end of the buffer and sets the dirty flag; the bare sentinel returns
\* to Command mode and leaves the buffer and the dirty flag alone.  So after
\* 'a', t1..tk and '.', the buffer is B followed by t1..tk, the mode is
\* Command and the dirty flag is true when k >= 1.
C9_AppendSession ==
  [][/\ (mode = modeCommand /\ line' = <<".", "a">>) =>
          mode' = modeAppend /\ buffer' = buffer /\ changed' = changed /\ pc' = "loop"
     /\ (mode = modeAppend /\ line' # <<>> /\ line'[1] # Sentinel) =>
          /\ buffer' = buffer \o <<line'>>
          /\ changed'
          /\ mode' = modeAppend
          /\ pc' = "loop"
     /\ (mode = modeAppend /\ line' = <<".">>) =>
          mode' = modeCommand /\ buffer' = buffer /\ changed' = changed /\ pc' = "loop"]_vars

\* C9 (witness): the sentinel has closed an append session that stored the
\* lines "x" and " x".
C9_Witness ==
  /\ line = <<".">>
  /\ mode = modeCommand
  /\ buffer = << <<"x">>, <<" ", "x">> >>
  /\ changed

\* C10: the sentinel alone parses to the leave-append-mode command in every
\* state; executing it sets the mode to Command and changes nothing else.
C10_BareSentinelIsDot ==
  [][line' = <<".">> =>
       /\ cmd'.kind = "command" /\ cmd'.name = "." /\ cmd'.handler = "dot"
       /\ mode' = modeCommand
       /\ UNCHANGED <<buffer, changed, lineNumbers, filename, files>>
       /\ err' = "" /\ out' = <<>>
       /\ pc' = "loop"]_vars

\* C10 (witness): the sentinel alone was executed as the dot command on an
\* editor with text, a filename and numbering on.
C10_Witness ==
  /\ line = <<".">>
  /\ cmd.handler = "dot"
  /\ mode = modeCommand
  /\ buffer # <<>>
  /\ filename # <<>>
  /\ lineNumbers

\* The print commands: the letter 'p' alone or after an address or a range
\* that begins as the command grammar has an address begin (a digit, '^' or
\* ','), with or without tokens after it.
PrintCommands ==
  { AddrLine(f1, f2, e) : f1 \in { f \in Firsts : f.anchor # <<"$">> },
                          f2 \in Seconds \cup {NoAddr},
                          e \in { x \in Ends : x.text # <<>> } }

C12_DirtyFlagTracksChanges ==
  [][/\ (mode = modeAppend /\ line' # <<>> /\ line'[1] # Sentinel) => changed'
     /\ (line' # <<>> /\ line'[1] = Sentinel /\ cmd'.handler = "readFile" /\ err' = "") =>
          changed'
     /\ (changed /\ ~changed') =>
          (line' # <<>> /\ line'[1] = Sentinel /\ cmd'.handler = "writeFile" /\ err' = "")]_vars

\* C13: the buffer changes only by 'n', which empties it, by a successful
\* 'r', which replaces it with the lines read, and by a line of text in
\* append mode, which is added at its end; every other turn of the loop (p,
\* q, a, '.', l, w, a failing command, a line of text in Command mode)
\* leaves it as it was.
C13_BufferChangesOnlyByNewReadAppend ==
  [][buffer' # buffer =>
       \/ /\ line' # <<>> /\ line'[1] = Sentinel
          /\ cmd'.handler = "new" /\ err' = ""
          /\ buffer' = <<>>
       \/ /\ line' # <<>> /\ line'[1] = Sentinel
          /\ cmd'.handler = "readFile" /\ err' = ""
          /\ filename' \in DOMAIN files
          /\ buffer' = [i \in 1..Len(files[filename']) |-> TrimSpace(files[filename'][i])]
       \/ /\ line' # <<>> /\ line'[1] # Sentinel
          /\ mode = modeAppend
          /\ buffer' = buffer \o <<line'>>]_vars

\* C13 (witness): 'n' has emptied a buffer that held appended text, after
\* commands that left it alone.
C13_Witness ==
  /\ line = <<".", "n">>
  /\ cmd.handler = "new"
  /\ buffer = <<>>
  /\ changed
  /\ lineNumbers
  /\ <<"0">> \in DOMAIN files /\ files[<<"0">>] # <<>>

\* C14: reading back a file that holds the buffer as it was written to it
\* yields the buffer again, line for line, blanks included.
C14_WriteThenReadIsIdentity ==
  [][(/\ line' # <<>> /\ line'[1] = Sentinel
      /\ cmd'.handler = "readFile" /\ err' = ""
      /\ filename' \in DOMAIN files
      /\ files[filename'] = buffer) =>
       buffer' = buffer]_vars

\* C15: at every point of a write over a saved file, whether the steps
\* succeed, fail or the process is killed, the file holds all of its
\* previous lines or all of the new ones.
C15_WriteNeverCorruptsSavedFile ==
  wr.step # "idle" =>
    /\ wr.fn \in DOMAIN files
    /\ files[wr.fn] = SavedLines \/ files[wr.fn] = buffer

\* C16: an 'r' whose open or read fails reports the error, and the buffer
\* and the filename stay as they were; the editor goes on.
C16_FailedReadLeavesState ==
  [][(/\ line' # <<>> /\ line'[1] = Sentinel
      /\ cmd'.handler = "readFile" /\ err' # "") =>
       /\ err' \in {ErrOpen, ErrNoName}
       /\ UNCHANGED <<buffer, filename, changed, mode, lineNumbers, files>>
       /\ pc' = "loop"]_vars

\* C16 (witness): an 'r' failed on an editor holding appended text and the
\* filename of an earlier read.
C16_Witness ==
  /\ line = <<".", "r", " ", "f">>
  /\ cmd.handler = "readFile"
  /\ err = ErrOpen
  /\ buffer = << <<"x">>, <<" ", "x">> >>
  /\ filename # <<>>
  /\ changed

\* The value of an address with the base of '^' at 0.
AddrValueFromZero(f) ==
  (IF f.anchor = <<"$">> THEN Len(buffer) ELSE 0)
  + (IF f.sign = <<"-">> THEN -1 ELSE 1) * (IF f.num < 0 THEN 0 ELSE f.num)

\* The bytes s begin with the bytes p.
StartsWith(s, p) == Len(p) <= Len(s) /\ SubSeq(s, 1, Len(p)) = p

\* What matchHere returns when it resolves an address to v and leaves the
\* cursor on the bytes r.
Resolved(v, r) == [panic |-> FALSE, pos |-> v, rest |-> r]

C18_EndOfInputEndsLoop ==
  eof => pc \notin {"panic", "loop"}

\* C19: an empty line never stops the editor; in append mode it is stored
\* as an empty line at the end of the buffer and sets the dirty flag, in
\* Command mode it changes nothing.
C19_EmptyLineIsHarmless ==
  [][(line' = <<>> /\ ~eof') =>
       /\ pc' = "loop"
       /\ err' = ""
       /\ UNCHANGED <<mode, lineNumbers, filename, files>>
       /\ IF mode = modeAppend
          THEN buffer' = buffer \o << <<>> >> /\ changed'
          ELSE UNCHANGED <<buffer, changed>>]_vars

\* C20: a line that begins with the sentinel is parsed and run as a command
\* in append mode as in Command mode ('l' toggles numbering, 'a' keeps the
\* mode) and is never added to the buffer, and append mode lasts until the
\* command is '.' or 'q'; a line of text changes the State only in append
\* mode.
C20_ModeGating ==
  [][/\ (line' # <<>> /\ line'[1] = Sentinel) =>
          /\ cmd' = parseCommand(line')
          /\ buffer' # buffer \o <<line'>>
          /\ (cmd'.kind = "command" /\ cmd'.handler = "numbers") =>
               lineNumbers' = ~lineNumbers
          /\ (mode = modeAppend /\ mode' # modeAppend) =>
               /\ cmd'.kind = "command"
               /\ \/ cmd'.handler = "dot" /\ mode' = modeCommand
                  \/ cmd'.handler = "quit" /\ mode' = modeQuit
     /\ (line' # <<>> /\ line'[1] # Sentinel /\ mode # modeAppend) =>
          UNCHANGED <<mode, buffer, changed, lineNumbers, filename, files, pc>>]_vars

\* C20 (witness): in append mode, with text in the buffer, 'l' was run as a
\* command: numbering is on, the mode is still Append and the buffer holds
\* the text alone.
C20_Witness ==
  /\ line = <<".", "l">>
  /\ cmd.handler = "numbers"
  /\ mode = modeAppend
  /\ lineNumbers
  /\ buffer = << <<"x">> >>

====
